---- MODULE Spec2Model ----
(***************************************************************************)
(* A model of the molecule viewer: the App shell (formula form, the single *)
(* data-provider request, view toggles), the 2D LewisStructure component   *)
(* (layout memo, bond segments, atom decorations) and the 3D Molecule3D    *)
(* component (BondMesh cylinders).                                         *)
(*                                                                         *)
(* JavaScript numbers are modelled as exact rationals <<n, d>> (d > 0, in  *)
(* lowest terms; <<1, 0>> and <<-1, 0>> stand for +Infinity, -Infinity).   *)
(* Inputs are drawn from grids on which every Math.sqrt the code takes is  *)
(* the square root of a perfect square, so the arithmetic is exact and     *)
(* floating-point rounding is outside the model.                           *)
(***************************************************************************)
EXTENDS Integers, Sequences, FiniteSets, TLC

VARIABLES
    formula,        \* App: useState('')      ("" | "  " | a formula string)
    loading,        \* App: useState(false)
    data,           \* App: useState<MoleculeData | null>(null) / the data prop
    error,          \* App: useState<string | null>(null)
    showLonePairs,  \* App: useState(true)     / LewisStructure prop
    showCharges,    \* App: useState(true)     / LewisStructure prop
    showLabels3D,   \* App: useState(true)     / Molecule3D prop
    pending,        \* requests awaiting generateMoleculeData (their ids)
    issued,         \* number of requests issued so far
    lastDone,       \* outcome of the last completed request
    hoveredAtom,    \* LewisStructure: useState<number | null>(null)
    memo,           \* LewisStructure: the useMemo cell (Null when unmounted)
    svg,            \* LewisStructure: the rendered <svg> (Null when unmounted)
    scene           \* Molecule3D: the rendered bond groups (Null when unmounted)

vars == <<formula, loading, data, error, showLonePairs, showCharges, showLabels3D,
          pending, issued, lastDone, hoveredAtom, memo, svg, scene>>

\* null and undefined are records, so that they compare with every object
Null == [tag |-> "null"]
Undefined == [tag |-> "undefined"]
\* a non-null number held in a nullable cell
Some(n) == [value |-> n]

----------------------------------------------------------------------------
(* Exact arithmetic on JavaScript numbers *)

Abs(n) == IF n < 0 THEN -n ELSE n

RECURSIVE Gcd(_, _)
Gcd(a, b) == IF b = 0 THEN a ELSE Gcd(b, a % b)

\* the number n / d (d # 0) in lowest terms with a positive denominator
Rat(n, d) ==
    LET g == Gcd(Abs(n), Abs(d))
        s == IF d < 0 THEN -1 ELSE 1
    IN  <<(s * n) \div g, (s * d) \div g>>

Num(n) == <<n, 1>>
PosInf == <<1, 0>>
NegInf == <<-1, 0>>
NaN == <<0, 0>>
IsFinite(a) == a[2] # 0

Lcm(a, b) == IF a = 0 \/ b = 0 THEN 0 ELSE (a \div Gcd(a, b)) * b

\* a + b over the least common denominator (an infinity absorbs a finite number)
RAdd(a, b) ==
    IF a[2] = 0 THEN a
    ELSE IF b[2] = 0 THEN b
    ELSE LET l == Lcm(a[2], b[2])
         IN  Rat(a[1] * (l \div a[2]) + b[1] * (l \div b[2]), l)
RNeg(a) == <<-a[1], a[2]>>
RSub(a, b) == RAdd(a, RNeg(b))
\* a * b, cancelling across before multiplying (NaN once an operand is not finite)
RMul(a, b) ==
    IF a[2] = 0 \/ b[2] = 0 THEN NaN
    ELSE LET g1 == Gcd(Abs(a[1]), b[2])
             g2 == Gcd(Abs(b[1]), a[2])
         IN  <<(a[1] \div g1) * (b[1] \div g2), (a[2] \div g2) * (b[2] \div g1)>>
\* a / b: 0 / 0 is NaN, x / 0 an infinity
RDiv(a, b) ==
    IF a[2] = 0 \/ b[2] = 0 THEN NaN
    ELSE IF b[1] = 0 THEN (IF a[1] = 0 THEN NaN ELSE IF a[1] > 0 THEN PosInf ELSE NegInf)
    ELSE RMul(a, IF b[1] < 0 THEN <<-b[2], -b[1]>> ELSE <<b[2], b[1]>>)
RLt(a, b) == a[1] * b[2] < b[1] * a[2]
RLe(a, b) == a[1] * b[2] <= b[1] * a[2]
RMin(a, b) == IF RLt(b, a) THEN b ELSE a
\* a slip: Math.min taken for the maximum
RMax_Min(a, b) == IF RLt(b, a) THEN b ELSE a
\* Math.max
RMax(a, b) == IF RLt(a, b) THEN b ELSE a

\* the largest r in lo .. hi with r * r <= n, by bisection
RECURSIVE ISqrtIn(_, _, _)
ISqrtIn(n, lo, hi) ==
    IF lo >= hi THEN lo
    ELSE LET mid == (lo + hi + 1) \div 2
         IN  IF mid * mid <= n THEN ISqrtIn(n, mid, hi) ELSE ISqrtIn(n, lo, mid - 1)

\* (46340 is the largest root whose square fits a 32-bit integer)
ISqrt(n) == ISqrtIn(n, 0, IF n < 46340 THEN n ELSE 46340)

\* Math.sqrt on a rational whose numerator and denominator are perfect squares
RSqrt(a) == <<ISqrt(a[1]), ISqrt(a[2])>>

IsSquare(a) == RMul(RSqrt(a), RSqrt(a)) = a

\* Math.sqrt(dx * dx + dy * dy)
Hypot(dx, dy) == RSqrt(RAdd(RMul(dx, dx), RMul(dy, dy)))

----------------------------------------------------------------------------
(* Sequences *)

\* a slip: arr.at(i), which counts a negative index from the end
At_FromEnd(arr, i) ==
    IF i \in 0 .. (Len(arr) - 1) THEN arr[i + 1]
    ELSE IF -i \in 1 .. Len(arr) THEN arr[Len(arr) + i + 1]
    ELSE Undefined

\* JavaScript's arr[i]: 0-based, undefined outside 0 .. length-1
At(arr, i) == IF i \in 0 .. (Len(arr) - 1) THEN arr[i + 1] ELSE Undefined

\* all sequences over S of length 0 .. n
SeqsUpTo(S, n) == UNION {[1 .. k -> S] : k \in 0 .. n}

RECURSIVE RSum(_)
RSum(s) == IF s = <<>> THEN Num(0) ELSE RAdd(Head(s), RSum(Tail(s)))

----------------------------------------------------------------------------
(* LewisStructure: the layout memo (useMemo over [data]) *)

TARGET_BOND_LENGTH == 60
PADDING == 40

\* data.bonds.forEach: totalLength and bondCount over the bonds that resolve
RECURSIVE MeasureBonds(_, _, _)
MeasureBonds(atoms, bonds, acc) ==
    IF bonds = <<>> THEN acc
    ELSE LET bond == Head(bonds)
             source == At(atoms, bond.source)
             target == At(atoms, bond.target)
             dx == RSub(source.x2d, target.x2d)
             dy == RSub(source.y2d, target.y2d)
         IN  MeasureBonds(atoms, Tail(bonds),
                 IF source # Undefined /\ target # Undefined
                 THEN [totalLength |-> RAdd(acc.totalLength, Hypot(dx, dy)),
                       bondCount |-> acc.bondCount + 1]
                 ELSE acc)

\* a slip: the total length taken for the mean
AvgLen_Total(m) == IF m.bondCount > 0 THEN m.totalLength ELSE Num(1)

AvgLen(m) == IF m.bondCount > 0 THEN RDiv(m.totalLength, Num(m.bondCount)) ELSE Num(1)

Scale(avgLen) ==
    IF RLt(Rat(1, 1000), avgLen) THEN RDiv(Num(TARGET_BOND_LENGTH), avgLen) ELSE Num(60)

ScaleOf(d) ==
    Scale(AvgLen(MeasureBonds(d.atoms, d.bonds, [totalLength |-> Num(0), bondCount |-> 0])))

\* {...atom, x: atom.x2d * scale, y: atom.y2d * scale}
ScaledAtom(atom, scale) ==
    [id |-> atom.id, element |-> atom.element,
     x2d |-> atom.x2d, y2d |-> atom.y2d,
     x3d |-> atom.x3d, y3d |-> atom.y3d, z3d |-> atom.z3d,
     lonePairs |-> atom.lonePairs, charge |-> atom.charge,
     x |-> RMul(atom.x2d, scale), y |-> RMul(atom.y2d, scale)]

\* scaledAtoms.forEach: the bounding box, from (Infinity, -Infinity, Infinity, -Infinity)
RECURSIVE BoundingBox(_, _)
BoundingBox(scaledAtoms, box) ==
    IF scaledAtoms = <<>> THEN box
    ELSE LET a == Head(scaledAtoms)
         IN  BoundingBox(Tail(scaledAtoms),
                 [minX |-> RMin(box.minX, a.x), maxX |-> RMax(box.maxX, a.x),
                  minY |-> RMin(box.minY, a.y), maxY |-> RMax(box.maxY, a.y)])

\* a slip: the padding added once to the width and height
ViewBox_SinglePadding(box) ==
    <<RSub(box.minX, Num(PADDING)),
      RSub(box.minY, Num(PADDING)),
      RAdd(RSub(box.maxX, box.minX), Num(PADDING)),
      RAdd(RSub(box.maxY, box.minY), Num(PADDING))>>

\* the viewBox string "x y w h", kept as its four numbers
ViewBox(box) ==
    <<RSub(box.minX, Num(PADDING)),
      RSub(box.minY, Num(PADDING)),
      RAdd(RSub(box.maxX, box.minX), Num(PADDING * 2)),
      RAdd(RSub(box.maxY, box.minY), Num(PADDING * 2))>>

DefaultViewBox == <<Num(0), Num(0), Num(100), Num(100)>>

\* the layout of a molecule, past the empty-atoms guard
FullLayout(d) ==
    LET scale == ScaleOf(d)
        scaledAtoms == [i \in 1 .. Len(d.atoms) |-> ScaledAtom(d.atoms[i], scale)]
        box == BoundingBox(scaledAtoms,
                   [minX |-> PosInf, maxX |-> NegInf, minY |-> PosInf, maxY |-> NegInf])
    IN  [normalizedAtoms |-> scaledAtoms, bonds |-> d.bonds, viewBox |-> ViewBox(box)]

\* a slip: the guard on data.atoms.length left out
Layout_NoGuard(d) == FullLayout(d)

\* the useMemo callback
Layout(d) ==
    IF Len(d.atoms) = 0
    THEN [normalizedAtoms |-> <<>>, bonds |-> <<>>, viewBox |-> DefaultViewBox]
    ELSE FullLayout(d)

----------------------------------------------------------------------------
(* LewisStructure: the <svg> children *)

Line(x1, y1, x2, y2) == [x1 |-> x1, y1 |-> y1, x2 |-> x2, y2 |-> y2]

\* a slip: only the first endpoint moved
OffsetLine_StartOnly(start, end, nx, ny, k) ==
    Line(RAdd(start.x, RMul(nx, k)), RAdd(start.y, RMul(ny, k)), end.x, end.y)

\* the line from start to end moved by k along the normal (nx, ny)
OffsetLine(start, end, nx, ny, k) ==
    Line(RAdd(start.x, RMul(nx, k)), RAdd(start.y, RMul(ny, k)),
         RAdd(end.x, RMul(nx, k)), RAdd(end.y, RMul(ny, k)))

\* a slip: the guard written against a negative length
TooShort_Negative(len) == RLt(len, Num(0))

\* if (len < 1) return null
TooShort(len) == RLt(len, Num(1))

\* bonds.map callback: the <line> elements of one bond (none for null)
BondLines(normalizedAtoms, bond) ==
    LET start == At(normalizedAtoms, bond.source)
        end == At(normalizedAtoms, bond.target)
    IN  IF start = Undefined \/ end = Undefined THEN <<>>
        ELSE LET dx == RSub(end.x, start.x)
                 dy == RSub(end.y, start.y)
                 len == Hypot(dx, dy)
             IN  IF TooShort(len) THEN <<>>
                 ELSE LET nx == RDiv(RNeg(dy), len)
                          ny == RDiv(dx, len)
                          offset == Num(3)
                          wide == RMul(offset, Rat(5, 2))
                      IN  IF bond.order = 1
                          THEN <<Line(start.x, start.y, end.x, end.y)>>
                          ELSE IF bond.order = 2
                          THEN <<OffsetLine(start, end, nx, ny, offset),
                                 OffsetLine(start, end, nx, ny, RNeg(offset))>>
                          ELSE IF bond.order = 3
                          THEN <<Line(start.x, start.y, end.x, end.y),
                                 OffsetLine(start, end, nx, ny, wide),
                                 OffsetLine(start, end, nx, ny, RNeg(wide))>>
                          ELSE <<>>

\* String.prototype.toUpperCase on the element symbols of the model
ToUpperCase(e) == IF e = "h" THEN "H" ELSE e

Radius(atom) == IF ToUpperCase(atom.element) = "H" THEN 10 ELSE 14

\* a slip: the pairs spread over half a turn
LonePairAngle_HalfTurn(i, k) == RSub(Rat(i, IF k > 1 THEN k ELSE 1), Rat(1, 2))

\* angle = (i * 2 * Math.PI) / Math.max(k, 1) - Math.PI / 2, as a multiple of pi
LonePairAngle(i, k) == RSub(Rat(i * 2, IF k > 1 THEN k ELSE 1), Rat(1, 2))

\* one pair-marker: <g transform="rotate(deg) translate(0, -dist)"> holding two dots
LonePairMarker(i, k) ==
    LET angle == LonePairAngle(i, k)
        dist == 6
    IN  [rotate |-> RMul(angle, Num(180)),
         translate |-> <<Num(0), Num(-dist)>>,
         dots |-> <<[cx |-> Rat(-5, 2), cy |-> Num(0), r |-> Rat(9, 5)],
                    [cx |-> Rat(5, 2), cy |-> Num(0), r |-> Rat(9, 5)]>>]

\* the SVG transform rotate(deg) on the point p, for whole quarter turns:
\* (x, y) goes to (x cos - y sin, x sin + y cos)
RotateDeg(deg, p) ==
    LET q == (deg[1] \div 90) % 4
        cos == IF q = 0 THEN Num(1) ELSE IF q = 2 THEN Num(-1) ELSE Num(0)
        sin == IF q = 1 THEN Num(1) ELSE IF q = 3 THEN Num(-1) ELSE Num(0)
    IN  <<RSub(RMul(p[1], cos), RMul(p[2], sin)), RAdd(RMul(p[1], sin), RMul(p[2], cos))>>

\* where "rotate(deg) translate(0, -dist)" puts the marker's origin, seen from
\* the lone-pair group: the translation, turned by the rotation
MarkerCentre(mk) == RotateDeg(mk.rotate, mk.translate)

\* {showLonePairs && atom.lonePairs > 0 && (<g translate(0, -(radius + 4))> ...)}
LonePairGroup(atom, show) ==
    IF show /\ atom.lonePairs > 0
    THEN [translate |-> <<Num(0), Num(-(Radius(atom) + 4))>>,
          markers |-> [j \in 1 .. atom.lonePairs |-> LonePairMarker(j - 1, atom.lonePairs)]]
    ELSE Null

\* {showCharges && atom.charge !== 0 && (<g translate(radius - 4, -(radius - 4))> ...)}
ChargeBadge(atom, show) ==
    IF show /\ atom.charge # 0
    THEN [translate |-> <<Num(Radius(atom) - 4), Num(-(Radius(atom) - 4))>>,
          r |-> Num(6),
          fill |-> IF atom.charge > 0 THEN "#ef4444" ELSE "#3b82f6",
          text |-> IF atom.charge > 0 THEN "+" ELSE "-"]
    ELSE Null

\* normalizedAtoms.map callback: one atom's <g>
AtomGroup(atom, hovered, showLP, showCh) ==
    [key |-> atom.id,
     translate |-> <<atom.x, atom.y>>,
     r |-> Num(Radius(atom)),
     stroke |-> IF hovered = Some(atom.id) THEN "#6366f1" ELSE "transparent",
     text |-> atom.element,
     lonePairs |-> LonePairGroup(atom, showLP),
     charge |-> ChargeBadge(atom, showCh)]

\* the component's return value for one render, from the memoised layout
RenderLewis(m, hovered, showLP, showCh) ==
    [viewBox |-> m.viewBox,
     bonds |-> [i \in 1 .. Len(m.bonds) |-> BondLines(m.normalizedAtoms, m.bonds[i])],
     atoms |-> [i \in 1 .. Len(m.normalizedAtoms) |->
                    AtomGroup(m.normalizedAtoms[i], hovered, showLP, showCh)],
     tooltip |-> hovered # Null]

----------------------------------------------------------------------------
(* Molecule3D: three.js vectors and quaternions, as BondMesh uses them *)

V3(x, y, z) == <<x, y, z>>
\* an atom's 3D position
Pos3(atom) == V3(atom.x3d, atom.y3d, atom.z3d)
\* Vector3.addVectors, subVectors, multiplyScalar, dot, length
AddVectors(a, b) == <<RAdd(a[1], b[1]), RAdd(a[2], b[2]), RAdd(a[3], b[3])>>
SubVectors(a, b) == <<RSub(a[1], b[1]), RSub(a[2], b[2]), RSub(a[3], b[3])>>
MultiplyScalar(v, k) == <<RMul(v[1], k), RMul(v[2], k), RMul(v[3], k)>>
Dot(a, b) == RAdd(RAdd(RMul(a[1], b[1]), RMul(a[2], b[2])), RMul(a[3], b[3]))
Length(v) == RSqrt(Dot(v, v))

\* a slip: the vector divided by its length, zero or not
Normalize_NoGuard(v) ==
    LET l == Length(v)
    IN  <<RDiv(v[1], l), RDiv(v[2], l), RDiv(v[3], l)>>

\* Vector3.normalize: divideScalar(this.length() || 1)
Normalize(v) ==
    LET l == Length(v)
        by == IF l = Num(0) THEN Num(1) ELSE l
    IN  <<RDiv(v[1], by), RDiv(v[2], by), RDiv(v[3], by)>>

Quat(x, y, z, w) == [x |-> x, y |-> y, z |-> z, w |-> w]

QLengthSq(q) ==
    RAdd(RAdd(RMul(q.x, q.x), RMul(q.y, q.y)), RAdd(RMul(q.z, q.z), RMul(q.w, q.w)))

\* Quaternion.normalize: the identity for length 0, else divided by the length
QNormalize(q) ==
    LET l == RSqrt(QLengthSq(q))
    IN  IF l = Num(0) THEN Quat(Num(0), Num(0), Num(0), Num(1))
        ELSE Quat(RDiv(q.x, l), RDiv(q.y, l), RDiv(q.z, l), RDiv(q.w, l))

\* Quaternion.setFromUnitVectors(vFrom, vTo), before its closing normalize();
\* the test r < Number.EPSILON is taken against 1e-6, which no r of the model
\* lies below except 0
UnitVectorsQuat(vFrom, vTo) ==
    LET r == RAdd(Dot(vFrom, vTo), Num(1))
    IN  IF RLt(r, Rat(1, 1000000))
        THEN IF RLt(<<Abs(vFrom[3][1]), vFrom[3][2]>>, <<Abs(vFrom[1][1]), vFrom[1][2]>>)
             THEN Quat(RNeg(vFrom[2]), vFrom[1], Num(0), Num(0))
             ELSE Quat(Num(0), RNeg(vFrom[3]), vFrom[2], Num(0))
        ELSE Quat(RSub(RMul(vFrom[2], vTo[3]), RMul(vFrom[3], vTo[2])),
                  RSub(RMul(vFrom[3], vTo[1]), RMul(vFrom[1], vTo[3])),
                  RSub(RMul(vFrom[1], vTo[2]), RMul(vFrom[2], vTo[1])),
                  r)

SetFromUnitVectors(vFrom, vTo) == QNormalize(UnitVectorsQuat(vFrom, vTo))

\* Vector3.applyQuaternion(q)
ApplyQuaternion(v, q) ==
    LET ix == RSub(RAdd(RMul(q.w, v[1]), RMul(q.y, v[3])), RMul(q.z, v[2]))
        iy == RSub(RAdd(RMul(q.w, v[2]), RMul(q.z, v[1])), RMul(q.x, v[3]))
        iz == RSub(RAdd(RMul(q.w, v[3]), RMul(q.x, v[2])), RMul(q.y, v[1]))
        iw == RNeg(RAdd(RAdd(RMul(q.x, v[1]), RMul(q.y, v[2])), RMul(q.z, v[3])))
    IN  <<RAdd(RSub(RSub(RMul(ix, q.w), RMul(iw, q.x)), RMul(iy, q.z)), RMul(iz, q.y)),
          RAdd(RSub(RSub(RMul(iy, q.w), RMul(iw, q.y)), RMul(iz, q.x)), RMul(ix, q.z)),
          RAdd(RSub(RSub(RMul(iz, q.w), RMul(iw, q.z)), RMul(ix, q.y)), RMul(iy, q.x))>>

\* a slip: the offset axis taken along the cylinder's own axis
LocalX_AlongBond(quaternion) == ApplyQuaternion(V3(Num(0), Num(1), Num(0)), quaternion)

\* new THREE.Vector3(1, 0, 0).applyQuaternion(quaternion)
LocalX(quaternion) == ApplyQuaternion(V3(Num(1), Num(0), Num(0)), quaternion)

\* one <mesh position quaternion> with cylinderGeometry args [radius, radius, length, 16]
Cylinder(key, position, quaternion, length) ==
    [key |-> key, position |-> position, quaternion |-> quaternion,
     radius |-> Rat(2, 25), height |-> length]

\* the BondMesh component: the meshes of one bond
BondMesh(start, end, order) ==
    LET mid == MultiplyScalar(AddVectors(start, end), Rat(1, 2))
        diff == SubVectors(end, start)
        length == Length(diff)
        up == V3(Num(0), Num(1), Num(0))
        quaternion == SetFromUnitVectors(up, Normalize(diff))
        offset == Rat(3, 20)
        localX == LocalX(quaternion)
        pos1 == AddVectors(mid, MultiplyScalar(localX, offset))
        pos2 == AddVectors(mid, MultiplyScalar(localX, RNeg(offset)))
    IN  IF order = 1
        THEN <<Cylinder("1", mid, quaternion, length)>>
        ELSE IF order = 2
        THEN <<Cylinder("d1", pos1, quaternion, length),
               Cylinder("d2", pos2, quaternion, length)>>
        ELSE <<Cylinder("t1", mid, quaternion, length),
               Cylinder("t2", pos1, quaternion, length),
               Cylinder("t3", pos2, quaternion, length)>>

\* CPK_COLORS[element.toUpperCase()] || CPK_COLORS.DEFAULT, the radius
CpkRadius(element) ==
    LET e == ToUpperCase(element)
    IN  IF e = "H" THEN Rat(3, 10)
        ELSE IF e = "C" THEN Rat(7, 10)
        ELSE IF e = "O" THEN Rat(6, 10)
        ELSE Rat(8, 10)

\* the AtomMesh component
AtomMesh(atom, showLabel) ==
    [key |-> atom.id,
     position |-> V3(atom.x3d, atom.y3d, atom.z3d),
     radius |-> RMul(CpkRadius(atom.element), Rat(2, 5)),
     label |-> IF showLabel THEN atom.element ELSE ""]

\* data.bonds.map callback: a BondMesh, or null when an index does not resolve
BondGroup(atoms, bond) ==
    LET startAtom == At(atoms, bond.source)
        endAtom == At(atoms, bond.target)
    IN  IF startAtom = Undefined \/ endAtom = Undefined THEN Null
        ELSE [meshes |-> BondMesh(V3(startAtom.x3d, startAtom.y3d, startAtom.z3d),
                                  V3(endAtom.x3d, endAtom.y3d, endAtom.z3d),
                                  bond.order)]

\* the Molecule3D component's scene
RenderMolecule3D(d, showLabels) ==
    [atoms |-> [i \in 1 .. Len(d.atoms) |-> AtomMesh(d.atoms[i], showLabels)],
     bonds |-> [i \in 1 .. Len(d.bonds) |-> BondGroup(d.atoms, d.bonds[i])]]

----------------------------------------------------------------------------
(* Bounded inputs *)

MaxAtoms == 2
MaxBonds == 2
MaxLonePairs == 3

\* raw 2D positions are grid points over a unit; every distance on the grid is
\* an integer (3, 4 or 5), and over 4000 the lengths fall on both sides of the
\* 0.001 threshold of Scale (0.00075, 0.001, 0.00125)
Grid2D == {<<-3, 0>>, <<0, 0>>, <<0, 4>>}
Units == {1, 4000}
Orders == 0 .. 4
Charges == {-1, 0, 1}
Elements == {"H", "h", "O"}
Indices == -1 .. (MaxAtoms - 1)

Atom(i, e, p, u, lp, ch) ==
    [id |-> i, element |-> e,
     x2d |-> Rat(p[1], u), y2d |-> Rat(p[2], u),
     x3d |-> Num(0), y3d |-> Num(0), z3d |-> Num(0),
     lonePairs |-> lp, charge |-> ch]

\* atom lists of 0 .. MaxAtoms undecorated carbon atoms, ids equal to positions
PlainAtoms ==
    UNION {UNION {{[i \in 1 .. k |-> Atom(i - 1, "C", ps[i], u, 0, 0)] : ps \in [1 .. k -> Grid2D]}
                  : k \in 0 .. MaxAtoms} : u \in Units}

BondsOfOrder(o) == {[source |-> s, target |-> t, order |-> o] : s, t \in Indices}

BondKey(b) == (b.source + 1) * (MaxAtoms + 1) + (b.target + 1)

\* bond lists up to reordering: non-decreasing in (source, target)
BondLists ==
    {bs \in SeqsUpTo(BondsOfOrder(1), MaxBonds) :
        \A i \in 1 .. (Len(bs) - 1) : BondKey(bs[i]) <= BondKey(bs[i + 1])}

\* one bond of any order
SingleBonds == {<<b>> : b \in UNION {BondsOfOrder(o) : o \in Orders}}

\* the molecules with atoms from atomLists and bonds from bondLists
Molecules(atomLists, bondLists) == {[atoms |-> a, bonds |-> bs] : a \in atomLists, bs \in bondLists}

\* one decorated atom
DecoratedInputs ==
    {[atoms |-> <<Atom(0, e, p, 1, lp, ch)>>, bonds |-> <<>>] :
        e \in Elements, p \in Grid2D, lp \in 0 .. MaxLonePairs, ch \in Charges}

\* raw 3D positions: grid points scaled by 3/50, so that the bonds of the grid
\* are 1.5 long
Grid3D == {<<0, 0, 0>>, <<0, 25, 0>>, <<24, 7, 0>>, <<0, 7, 24>>}

Atom3(i, p) ==
    [id |-> i, element |-> "C",
     x2d |-> Num(0), y2d |-> Num(0),
     x3d |-> Rat(p[1] * 3, 50), y3d |-> Rat(p[2] * 3, 50), z3d |-> Rat(p[3] * 3, 50),
     lonePairs |-> 0, charge |-> 0]

PlainAtoms3 ==
    UNION {{[i \in 1 .. k |-> Atom3(i - 1, ps[i])] : ps \in [1 .. k -> Grid3D]} : k \in 0 .. MaxAtoms}

\* the square roots BondMesh takes between start and end are exact
ExactBond3(start, end) ==
    LET diff == SubVectors(end, start)
    IN  /\ IsSquare(Dot(diff, diff))
        /\ IsSquare(QLengthSq(UnitVectorsQuat(V3(Num(0), Num(1), Num(0)), Normalize(diff))))

\* the pairs of positions between which a bond is exact
ExactPairs3 ==
    {pq \in {<<Pos3(Atom3(0, p)), Pos3(Atom3(0, q))>> : p, q \in Grid3D} : ExactBond3(pq[1], pq[2])}

ExactMolecule3(d) ==
    \A i \in 1 .. Len(d.bonds) :
        LET s == At(d.atoms, d.bonds[i].source)
            e == At(d.atoms, d.bonds[i].target)
        IN  (s # Undefined /\ e # Undefined) => <<Pos3(s), Pos3(e)>> \in ExactPairs3

----------------------------------------------------------------------------
(* The LewisStructure component on its own: props drawn at Init, one render *)

AppIdle ==
    /\ formula = ""
    /\ loading = FALSE
    /\ error = Null
    /\ showLabels3D = TRUE
    /\ pending = {}
    /\ issued = 0
    /\ lastDone = Null

\* the props: molecules of plain atoms with single bonds or with one bond of any
\* order, both toggles on; or one decorated atom under any toggles
InitLewis ==
    /\ AppIdle
    /\ \/ /\ data \in Molecules(PlainAtoms, BondLists \cup SingleBonds)
          /\ showLonePairs = TRUE
          /\ showCharges = TRUE
       \/ /\ data \in DecoratedInputs
          /\ showLonePairs \in BOOLEAN
          /\ showCharges \in BOOLEAN
    /\ hoveredAtom = Null
    /\ memo = Null
    /\ svg = Null
    /\ scene = Null

\* the first render: useMemo computes the layout, the JSX is built from it
MountLewis ==
    /\ data # Null
    /\ memo = Null
    /\ memo' = Layout(data)
    /\ svg' = RenderLewis(memo', hoveredAtom, showLonePairs, showCharges)
    /\ UNCHANGED <<formula, loading, data, error, showLonePairs, showCharges,
                   showLabels3D, pending, issued, lastDone, hoveredAtom, scene>>

NextLewis == MountLewis

SpecLewis == InitLewis /\ [][NextLewis]_vars

----------------------------------------------------------------------------
(* The App: the formula form, the data-provider request and the two views *)

MaxRequests == 2

Formulas == {"", " ", "H2O", " H2O"}

\* String.prototype.trim on the formulas of the model
Trim(f) == IF f = " " THEN "" ELSE IF f = " H2O" THEN "H2O" ELSE f

FailureMessage == "Failed to generate molecule. Please check the formula or try again."

\* the outcome recorded for a request that threw
Failed == [tag |-> "failed"]

MolAtom(i, e, p2, p3, lp, ch) ==
    [id |-> i, element |-> e,
     x2d |-> Num(p2[1]), y2d |-> Num(p2[2]),
     x3d |-> Rat(p3[1] * 3, 50), y3d |-> Rat(p3[2] * 3, 50), z3d |-> Rat(p3[3] * 3, 50),
     lonePairs |-> lp, charge |-> ch]

\* records the data provider may answer with: a charged diatomic with a double
\* bond and a dangling bond, a record without atoms, two atoms at one position
Responses ==
    {[atoms |-> <<MolAtom(0, "O", <<0, 0>>, <<0, 0, 0>>, 2, -1),
                  MolAtom(1, "H", <<0, 4>>, <<0, 25, 0>>, 0, 1)>>,
      bonds |-> <<[source |-> 0, target |-> 1, order |-> 2],
                  [source |-> 0, target |-> 5, order |-> 1]>>],
     [atoms |-> <<>>,
      bonds |-> <<[source |-> 0, target |-> 1, order |-> 1]>>],
     [atoms |-> <<MolAtom(0, "C", <<-3, 0>>, <<24, 7, 0>>, 1, 0),
                  MolAtom(1, "C", <<-3, 0>>, <<24, 7, 0>>, 0, 0)>>,
      bonds |-> <<[source |-> 0, target |-> 1, order |-> 3]>>]}

\* a slip: the layout scales the atoms of the record in place
InputAfterLayout_InPlace(d) ==
    [atoms |-> [i \in 1 .. Len(d.atoms) |->
                    [d.atoms[i] EXCEPT !.x2d = RMul(@, ScaleOf(d)), !.y2d = RMul(@, ScaleOf(d))]],
     bonds |-> d.bonds]

\* the record after a render: the layout spreads each atom into a new object
\* and reads the bonds, so the record is as it was
InputAfterLayout(d) == d

\* a slip: the submit button never disabled
SubmitEnabled_Always(isLoading) == TRUE

\* <button type="submit" disabled={loading}>: the form's default button takes
\* clicks and implicit submission (Enter in the input) only while enabled
SubmitEnabled(isLoading) == ~isLoading

Init ==
    /\ formula = ""
    /\ loading = FALSE
    /\ data = Null
    /\ error = Null
    /\ showLonePairs = TRUE
    /\ showCharges = TRUE
    /\ showLabels3D = TRUE
    /\ pending = {}
    /\ issued = 0
    /\ lastDone = Null
    /\ hoveredAtom = Null
    /\ memo = Null
    /\ svg = Null
    /\ scene = Null

\* the views after a render of App with molecule d (null: neither is mounted);
\* a mounted LewisStructure keeps its memo, its dependency [data] being the same
ViewsFor(d, hovered, showLP, showCh, showLabels) ==
    IF d = Null
    THEN /\ memo' = Null
         /\ svg' = Null
         /\ scene' = Null
    ELSE /\ memo' = IF memo = Null THEN Layout(d) ELSE memo
         /\ svg' = RenderLewis(memo', hovered, showLP, showCh)
         /\ scene' = RenderMolecule3D(d, showLabels)

\* onChange of the input, and the example buttons
SetFormula(f) ==
    /\ formula' = f
    /\ UNCHANGED <<loading, data, error, showLonePairs, showCharges, showLabels3D,
                   pending, issued, lastDone, hoveredAtom, memo, svg, scene>>

\* a slip: the previous molecule left in place while the next is fetched
DataOnSubmit_Keep(d) == d

\* setData(null) before the await
DataOnSubmit(d) == Null

\* a submission of the form: handleGenerate up to its await
Submit ==
    /\ issued < MaxRequests
    /\ IF ~SubmitEnabled(loading) \/ Trim(formula) = ""
       THEN UNCHANGED vars
       ELSE /\ loading' = TRUE
            /\ error' = Null
            /\ data' = DataOnSubmit(data)
            /\ pending' = pending \cup {[id |-> issued + 1, formula |-> Trim(formula)]}
            /\ issued' = issued + 1
            /\ hoveredAtom' = Null
            /\ ViewsFor(data', hoveredAtom', showLonePairs, showCharges, showLabels3D)
            /\ UNCHANGED <<formula, showLonePairs, showCharges, showLabels3D, lastDone>>

\* a slip: the finally block left out
LoadingOnSettle_Keep(isLoading) == isLoading

\* finally { setLoading(false) }, after the try and after the catch
LoadingOnSettle(isLoading) == FALSE

\* generateMoleculeData resolves: setData(result), then finally setLoading(false)
Resolve(req, result) ==
    /\ req \in pending
    /\ pending' = pending \ {req}
    /\ data' = InputAfterLayout(result)
    /\ loading' = LoadingOnSettle(loading)
    /\ lastDone' = result
    /\ hoveredAtom' = Null
    /\ memo' = Layout(result)
    /\ svg' = RenderLewis(memo', hoveredAtom', showLonePairs, showCharges)
    /\ scene' = RenderMolecule3D(data', showLabels3D)
    /\ UNCHANGED <<formula, error, showLonePairs, showCharges, showLabels3D, issued>>

\* generateMoleculeData throws: setError(message), then finally setLoading(false)
Reject(req) ==
    /\ req \in pending
    /\ pending' = pending \ {req}
    /\ error' = FailureMessage
    /\ loading' = LoadingOnSettle(loading)
    /\ lastDone' = Failed
    /\ UNCHANGED <<formula, data, showLonePairs, showCharges, showLabels3D, issued,
                   hoveredAtom, memo, svg, scene>>

\* the view-option buttons of the results section
ToggleLonePairs ==
    /\ data # Null
    /\ showLonePairs' = ~showLonePairs
    /\ ViewsFor(data, hoveredAtom, showLonePairs', showCharges, showLabels3D)
    /\ UNCHANGED <<formula, loading, data, error, showCharges, showLabels3D,
                   pending, issued, lastDone, hoveredAtom>>

ToggleCharges ==
    /\ data # Null
    /\ showCharges' = ~showCharges
    /\ ViewsFor(data, hoveredAtom, showLonePairs, showCharges', showLabels3D)
    /\ UNCHANGED <<formula, loading, data, error, showLonePairs, showLabels3D,
                   pending, issued, lastDone, hoveredAtom>>

ToggleLabels3D ==
    /\ data # Null
    /\ showLabels3D' = ~showLabels3D
    /\ ViewsFor(data, hoveredAtom, showLonePairs, showCharges, showLabels3D')
    /\ UNCHANGED <<formula, loading, data, error, showLonePairs, showCharges,
                   pending, issued, lastDone, hoveredAtom>>

\* onMouseEnter of an atom's <g>
MouseEnter(i) ==
    /\ memo # Null
    /\ i \in 1 .. Len(memo.normalizedAtoms)
    /\ hoveredAtom' = Some(memo.normalizedAtoms[i].id)
    /\ ViewsFor(data, hoveredAtom', showLonePairs, showCharges, showLabels3D)
    /\ UNCHANGED <<formula, loading, data, error, showLonePairs, showCharges,
                   showLabels3D, pending, issued, lastDone>>

\* onMouseLeave of an atom's <g>
MouseLeave ==
    /\ memo # Null
    /\ hoveredAtom # Null
    /\ hoveredAtom' = Null
    /\ ViewsFor(data, hoveredAtom', showLonePairs, showCharges, showLabels3D)
    /\ UNCHANGED <<formula, loading, data, error, showLonePairs, showCharges,
                   showLabels3D, pending, issued, lastDone>>

Next ==
    \/ \E f \in Formulas : SetFormula(f)
    \/ Submit
    \/ \E req \in pending : \E result \in Responses : Resolve(req, result)
    \/ \E req \in pending : Reject(req)
    \/ ToggleLonePairs
    \/ ToggleCharges
    \/ ToggleLabels3D
    \/ \E i \in 1 .. MaxAtoms : MouseEnter(i)
    \/ MouseLeave

Spec == Init /\ [][Next]_vars

----------------------------------------------------------------------------
(* Properties of the 2D layout *)

Mounted == memo # Null

\* the bonds of bs whose two indices resolve in atoms
RECURSIVE ResolvedBonds(_, _)
ResolvedBonds(atoms, bs) ==
    IF bs = <<>> THEN <<>>
    ELSE LET rest == ResolvedBonds(atoms, Tail(bs))
         IN  IF Head(bs).source \in 0 .. (Len(atoms) - 1) /\ Head(bs).target \in 0 .. (Len(atoms) - 1)
             THEN <<Head(bs)>> \o rest
             ELSE rest

\* raw and rendered lengths of the resolved bonds, one per bond
RawLengths(d) ==
    LET rb == ResolvedBonds(d.atoms, d.bonds)
    IN  [i \in 1 .. Len(rb) |->
            Hypot(RSub(d.atoms[rb[i].source + 1].x2d, d.atoms[rb[i].target + 1].x2d),
                  RSub(d.atoms[rb[i].source + 1].y2d, d.atoms[rb[i].target + 1].y2d))]

RenderedLengths(m) ==
    LET rb == ResolvedBonds(m.normalizedAtoms, m.bonds)
    IN  [i \in 1 .. Len(rb) |->
            Hypot(RSub(m.normalizedAtoms[rb[i].source + 1].x, m.normalizedAtoms[rb[i].target + 1].x),
                  RSub(m.normalizedAtoms[rb[i].source + 1].y, m.normalizedAtoms[rb[i].target + 1].y))]

\* the mean of a non-empty list of lengths exceeds 0.001
MeanAboveThreshold(ls) == RLt(Num(Len(ls)), RMul(RSum(ls), Num(1000)))

\* C1 as stated: for every molecule with at least one atom and one bond, the
\* rendered lengths of the bonds used for the mean sum to 60 times their count.
C1_MeanRenderedLengthIsTarget ==
    (Mounted /\ Len(data.atoms) >= 1 /\ Len(data.bonds) >= 1)
        => RSum(RenderedLengths(memo)) = Num(60 * Len(RenderedLengths(memo)))

\* C1 amended: the rendered lengths sum to 60 times their count when the mean
\* raw length of the resolved bonds exceeds 0.001; otherwise the fallback scale
\* 60 applies and every rendered length is 60 times the raw length.
C1_MeanRenderedLengthIsTargetAboveThreshold ==
    (Mounted /\ Len(data.atoms) >= 1 /\ Len(data.bonds) >= 1)
        => LET raw == RawLengths(data)
               out == RenderedLengths(memo)
           IN  /\ Len(out) = Len(raw)
               /\ IF raw = <<>> \/ MeanAboveThreshold(raw)
                  THEN RSum(out) = Num(60 * Len(out))
                  ELSE \A i \in 1 .. Len(out) : out[i] = RMul(Num(60), raw[i])

\* a rendered molecule with two resolved bonds of different raw lengths whose
\* mean is above the threshold
C1_Witness ==
    /\ Mounted
    /\ LET raw == RawLengths(data)
       IN  /\ Len(raw) = 2
           /\ raw[1] # raw[2]
           /\ MeanAboveThreshold(raw)

\* a*a + b*b
SqNorm(a, b) == RAdd(RMul(a, a), RMul(b, b))

\* the distance of the point (x, y) plus a disc of radius r around it from the
\* origin is at most pad
DiscWithin(x, y, r, pad) == RLe(r, pad) /\ RLe(SqNorm(x, y), RMul(RSub(pad, r), RSub(pad, r)))

\* every dot of a lone-pair group stays within pad of the atom centre: a dot
\* sits at the group translation plus a rotation of (marker translation + dot
\* centre), and a rotation keeps the length of what it rotates
LonePairsWithin(g, pad) ==
    \A j \in 1 .. Len(g.markers) : \A k \in 1 .. Len(g.markers[j].dots) :
        LET mk == g.markers[j]
            dot == mk.dots[k]
            arm == Hypot(RAdd(mk.translate[1], dot.cx), RAdd(mk.translate[2], dot.cy))
            off == Hypot(g.translate[1], g.translate[2])
        IN  RLe(RAdd(RAdd(off, arm), dot.r), pad)

\* the circle, the lone pairs and the charge badge of an atom group stay within
\* pad of the atom centre
DecorationsWithin(g, pad) ==
    /\ RLe(g.r, pad)
    /\ g.lonePairs # Null => LonePairsWithin(g.lonePairs, pad)
    /\ g.charge # Null => DiscWithin(g.charge.translate[1], g.charge.translate[2], g.charge.r, pad)

\* C2: every normalized atom centre is at least 40 inside each edge of the
\* emitted view frame, and every decoration of the atom (circle, lone-pair
\* dots, charge badge) stays within 40 of the centre.
C2_FramePadsEveryAtom ==
    (Mounted /\ Len(data.atoms) >= 1)
        => LET vb == memo.viewBox
           IN  /\ Len(svg.atoms) = Len(data.atoms)
               /\ svg.viewBox = vb
               /\ \A i \in 1 .. Len(svg.atoms) :
                    LET g == svg.atoms[i]
                        x == g.translate[1]
                        y == g.translate[2]
                    IN  /\ g.translate = <<memo.normalizedAtoms[i].x, memo.normalizedAtoms[i].y>>
                        /\ RLe(Num(40), RSub(x, vb[1]))
                        /\ RLe(Num(40), RSub(RAdd(vb[1], vb[3]), x))
                        /\ RLe(Num(40), RSub(y, vb[2]))
                        /\ RLe(Num(40), RSub(RAdd(vb[2], vb[4]), y))
                        /\ DecorationsWithin(g, Num(40))

\* a rendered atom of radius 14 with lone pairs and a charge badge shown
C2_Witness ==
    /\ Mounted
    /\ \E i \in 1 .. Len(svg.atoms) :
        /\ svg.atoms[i].r = Num(14)
        /\ svg.atoms[i].lonePairs # Null
        /\ svg.atoms[i].charge # Null

\* the lines of a bond of order o between the rendered atoms s and e are the
\* strands C3 describes
StrandsAsClaimed(lines, s, e, o) ==
    LET centre == Line(s.x, s.y, e.x, e.y)
        \* line l is the centre line moved by (vx, vy)
        Moved(l, vx, vy) ==
            l = Line(RAdd(s.x, vx), RAdd(s.y, vy), RAdd(e.x, vx), RAdd(e.y, vy))
        \* the lines a and b are the centre line moved by +v and -v, v normal
        \* to the bond and of squared length sq
        Pair(a, b, sq) ==
            LET vx == RSub(a.x1, s.x)
                vy == RSub(a.y1, s.y)
            IN  /\ Moved(a, vx, vy)
                /\ Moved(b, RNeg(vx), RNeg(vy))
                /\ SqNorm(vx, vy) = sq
                /\ RAdd(RMul(vx, RSub(e.x, s.x)), RMul(vy, RSub(e.y, s.y))) = Num(0)
    IN  /\ Len(lines) = o
        /\ o = 1 => lines[1] = centre
        /\ o = 2 => Pair(lines[1], lines[2], Num(9))
        /\ o = 3 => lines[1] = centre /\ Pair(lines[2], lines[3], Rat(225, 4))

\* C3 as stated: every bond of order 1..3 whose indices resolve to atoms at
\* different raw positions emits its order in strands.
C3_StrandsForDistinctRawPositions ==
    Mounted =>
        \A i \in 1 .. Len(data.bonds) :
            LET b == data.bonds[i]
                s == At(data.atoms, b.source)
                e == At(data.atoms, b.target)
            IN  (b.order \in 1 .. 3 /\ s # Undefined /\ e # Undefined
                    /\ <<s.x2d, s.y2d>> # <<e.x2d, e.y2d>>)
                => StrandsAsClaimed(svg.bonds[i], memo.normalizedAtoms[b.source + 1],
                                    memo.normalizedAtoms[b.target + 1], b.order)

\* C3 amended: every bond of order 1..3 whose indices resolve to atoms rendered
\* at least 1 unit apart emits its order in strands (centre line for order 1,
\* two lines at 3 either side for order 2, centre plus two at 7.5 for order 3).
C3_StrandsForBondsAtLeastOneLong ==
    Mounted =>
        \A i \in 1 .. Len(data.bonds) :
            LET b == data.bonds[i]
                s == At(memo.normalizedAtoms, b.source)
                e == At(memo.normalizedAtoms, b.target)
            IN  (b.order \in 1 .. 3 /\ s # Undefined /\ e # Undefined
                    /\ RLe(Num(1), SqNorm(RSub(e.x, s.x), RSub(e.y, s.y))))
                => StrandsAsClaimed(svg.bonds[i], s, e, b.order)

\* a triple bond drawn as three lines between atoms off both axes
C3_Witness ==
    /\ Mounted
    /\ \E i \in 1 .. Len(svg.bonds) :
        /\ data.bonds[i].order = 3
        /\ Len(svg.bonds[i]) = 3
        /\ svg.bonds[i][1].x1 # svg.bonds[i][1].x2
        /\ svg.bonds[i][1].y1 # svg.bonds[i][1].y2

\* C6: with no atoms the layout is the default frame 0 0 100 100 with no
\* normalized atoms and no bonds, whatever bonds the input lists, and nothing
\* is drawn.
C6_EmptyAtomsGiveDefaultFrame ==
    (Mounted /\ Len(data.atoms) = 0)
        => /\ memo.viewBox = <<Num(0), Num(0), Num(100), Num(100)>>
           /\ memo.normalizedAtoms = <<>>
           /\ memo.bonds = <<>>
           /\ svg.viewBox = memo.viewBox
           /\ svg.bonds = <<>>
           /\ svg.atoms = <<>>

\* a rendered molecule with no atoms and a bond in its input
C6_Witness == Mounted /\ Len(data.atoms) = 0 /\ Len(data.bonds) >= 1

\* C9: an atom with k lone pairs, shown, gets exactly k pair-markers, the i-th
\* turned by i * 360 / k - 90 degrees, each of two dots at -2.5 and +2.5 across
\* its radial direction; k = 0 gives no marker.
C9_LonePairMarkers ==
    (Mounted /\ showLonePairs) =>
        \A a \in 1 .. Len(data.atoms) :
            LET k == data.atoms[a].lonePairs
                g == svg.atoms[a].lonePairs
            IN  /\ k = 0 => g = Null
                /\ k > 0 =>
                    /\ g # Null
                    /\ Len(g.markers) = k
                    /\ \A j \in 1 .. k :
                        LET mk == g.markers[j]
                        IN  /\ mk.rotate = RSub(Rat((j - 1) * 360, k), Num(90))
                            /\ Len(mk.dots) = 2
                            /\ mk.dots[1].cx = Rat(-5, 2)
                            /\ mk.dots[2].cx = Rat(5, 2)
                            /\ mk.dots[1].cy = mk.dots[2].cy
                            \* the dots lie across the radial translation
                            /\ RAdd(RMul(mk.dots[1].cx, mk.translate[1]),
                                    RMul(mk.dots[1].cy, mk.translate[2])) = Num(0)
                    /\ \A j \in 1 .. (k - 1) :
                        RSub(g.markers[j + 1].rotate, g.markers[j].rotate) = Rat(360, k)

\* an atom with three lone pairs drawn
C9_Witness ==
    /\ Mounted
    /\ showLonePairs
    /\ \E a \in 1 .. Len(data.atoms) :
        data.atoms[a].lonePairs = 3 /\ Len(svg.atoms[a].lonePairs.markers) = 3

----------------------------------------------------------------------------
(* The Molecule3D component on its own: props drawn at Init, one render *)

\* the props: molecules of single bonds or of one bond of any order, in 3D
Init3D ==
    /\ AppIdle
    /\ data \in {d \in Molecules(PlainAtoms3, BondLists \cup SingleBonds) : ExactMolecule3(d)}
    /\ showLonePairs = TRUE
    /\ showCharges = TRUE
    /\ hoveredAtom = Null
    /\ memo = Null
    /\ svg = Null
    /\ scene = Null

Mount3D ==
    /\ data # Null
    /\ scene = Null
    /\ scene' = RenderMolecule3D(data, showLabels3D)
    /\ UNCHANGED <<formula, loading, data, error, showLonePairs, showCharges,
                   showLabels3D, pending, issued, lastDone, hoveredAtom, memo, svg>>

Next3D == Mount3D

Spec3D == Init3D /\ [][Next3D]_vars

----------------------------------------------------------------------------
(* Properties of the 3D bond geometry *)

Mounted3D == scene # Null

\* the meshes a and b sit at mid + v and mid - v, v across the bond and 0.15 long
OffsetPair(a, b, mid, diff) ==
    LET v == SubVectors(a.position, mid)
    IN  /\ b.position = SubVectors(mid, v)
        /\ Dot(v, v) = Rat(9, 400)
        /\ Dot(v, diff) = Num(0)

\* C4: a bond of order 1..3 between distinct endpoints gives exactly `order`
\* cylinders of one orientation and of the endpoint distance in length; the
\* single cylinder and the centre strand of order 3 sit at the midpoint, the
\* offset cylinders at the midpoint plus and minus one lateral vector of
\* length 0.15.
C4_CylindersPerOrder ==
    Mounted3D =>
        \A i \in 1 .. Len(data.bonds) :
            LET b == data.bonds[i]
                s == At(data.atoms, b.source)
                e == At(data.atoms, b.target)
            IN  (b.order \in 1 .. 3 /\ s # Undefined /\ e # Undefined /\ Pos3(s) # Pos3(e))
                => LET g == scene.bonds[i].meshes
                       mid == MultiplyScalar(AddVectors(Pos3(s), Pos3(e)), Rat(1, 2))
                       diff == SubVectors(Pos3(e), Pos3(s))
                   IN  /\ Len(g) = b.order
                       /\ \A c \in 1 .. Len(g) :
                            /\ g[c].quaternion = g[1].quaternion
                            /\ RLt(Num(0), g[c].height)
                            /\ RMul(g[c].height, g[c].height) = Dot(diff, diff)
                       /\ b.order = 1 => g[1].position = mid
                       /\ b.order = 2 => OffsetPair(g[1], g[2], mid, diff)
                       /\ b.order = 3 => g[1].position = mid /\ OffsetPair(g[2], g[3], mid, diff)

\* a triple bond 1.5 long, leaning out of the vertical, drawn as three cylinders
C4_Witness ==
    /\ Mounted3D
    /\ \E i \in 1 .. Len(data.bonds) :
        /\ data.bonds[i].order = 3
        /\ scene.bonds[i] # Null
        /\ Len(scene.bonds[i].meshes) = 3
        /\ scene.bonds[i].meshes[1].height = Rat(3, 2)
        /\ scene.bonds[i].meshes[1].quaternion # Quat(Num(0), Num(0), Num(0), Num(1))

\* every number of a cylinder is finite
FiniteCylinder(c) ==
    /\ \A k \in 1 .. 3 : IsFinite(c.position[k])
    /\ IsFinite(c.quaternion.x) /\ IsFinite(c.quaternion.y)
    /\ IsFinite(c.quaternion.z) /\ IsFinite(c.quaternion.w)
    /\ IsFinite(c.height)

\* C5 as stated: a bond between atoms at one 3D position gives no cylinder or a
\* single zero-length cylinder at that position, never a NaN.
C5_CoincidentEndpointsGiveOnePoint ==
    Mounted3D =>
        \A i \in 1 .. Len(data.bonds) :
            LET b == data.bonds[i]
                s == At(data.atoms, b.source)
                e == At(data.atoms, b.target)
            IN  (s # Undefined /\ e # Undefined /\ Pos3(s) = Pos3(e))
                => LET g == scene.bonds[i].meshes
                   IN  /\ \A c \in 1 .. Len(g) : FiniteCylinder(g[c])
                       /\ \/ g = <<>>
                          \/ Len(g) = 1 /\ g[1].height = Num(0) /\ g[1].position = Pos3(s)

\* C5 amended: a bond between atoms at one 3D position gives zero-length
\* cylinders with the identity orientation and finite numbers: one at the common
\* position for order 1, two at the common position plus and minus (0.15, 0, 0)
\* for order 2, and for every other order one at the common position and two at
\* plus and minus (0.15, 0, 0).
C5_CoincidentEndpointsGiveFlatCylinders ==
    Mounted3D =>
        \A i \in 1 .. Len(data.bonds) :
            LET b == data.bonds[i]
                s == At(data.atoms, b.source)
                e == At(data.atoms, b.target)
            IN  (s # Undefined /\ e # Undefined /\ Pos3(s) = Pos3(e))
                => LET g == scene.bonds[i].meshes
                       p == Pos3(s)
                       side == V3(Rat(3, 20), Num(0), Num(0))
                   IN  /\ \A c \in 1 .. Len(g) :
                            /\ FiniteCylinder(g[c])
                            /\ g[c].height = Num(0)
                            /\ g[c].quaternion = Quat(Num(0), Num(0), Num(0), Num(1))
                       /\ b.order = 1 => Len(g) = 1 /\ g[1].position = p
                       /\ b.order = 2 =>
                            /\ Len(g) = 2
                            /\ g[1].position = AddVectors(p, side)
                            /\ g[2].position = SubVectors(p, side)
                       /\ b.order \notin {1, 2} =>
                            /\ Len(g) = 3
                            /\ g[1].position = p
                            /\ g[2].position = AddVectors(p, side)
                            /\ g[3].position = SubVectors(p, side)

\* a double bond between two atoms at one position away from the origin, drawn
C5_Witness ==
    /\ Mounted3D
    /\ \E i \in 1 .. Len(data.bonds) :
        /\ data.bonds[i].order = 2
        /\ data.bonds[i].source # data.bonds[i].target
        /\ scene.bonds[i] # Null
        /\ scene.bonds[i].meshes[1].height = Num(0)
        /\ scene.bonds[i].meshes[1].position[2] # Num(0)

\* the orientation of every cylinder turns the y axis onto the bond direction
CylindersFollowBond ==
    Mounted3D =>
        \A i \in 1 .. Len(data.bonds) :
            scene.bonds[i] # Null =>
                LET s == Pos3(At(data.atoms, data.bonds[i].source))
                    e == Pos3(At(data.atoms, data.bonds[i].target))
                    g == scene.bonds[i].meshes
                IN  s # e =>
                        \A c \in 1 .. Len(g) :
                            MultiplyScalar(ApplyQuaternion(V3(Num(0), Num(1), Num(0)), g[c].quaternion),
                                           g[c].height) = SubVectors(e, s)

----------------------------------------------------------------------------
(* Both views on one molecule: the results section mounts LewisStructure and
   Molecule3D with the same data *)

\* the 3D grid point an atom at the 2D grid point p is given
Place3(p) ==
    IF p = <<-3, 0>> THEN <<0, 25, 0>>
    ELSE IF p = <<0, 0>> THEN <<0, 0, 0>>
    ELSE <<24, 7, 0>>

Atom23(i, p) ==
    [id |-> i, element |-> "C",
     x2d |-> Num(p[1]), y2d |-> Num(p[2]),
     x3d |-> Rat(Place3(p)[1] * 3, 50), y3d |-> Rat(Place3(p)[2] * 3, 50),
     z3d |-> Rat(Place3(p)[3] * 3, 50),
     lonePairs |-> 0, charge |-> 0]

PlainAtoms23 ==
    UNION {{[i \in 1 .. k |-> Atom23(i - 1, ps[i])] : ps \in [1 .. k -> Grid2D]} : k \in 0 .. MaxAtoms}

InitViews ==
    /\ AppIdle
    /\ data \in {d \in Molecules(PlainAtoms23, BondLists \cup SingleBonds) : ExactMolecule3(d)}
    /\ showLonePairs = TRUE
    /\ showCharges = TRUE
    /\ hoveredAtom = Null
    /\ memo = Null
    /\ svg = Null
    /\ scene = Null

\* the first render of the results section: both components mount
MountViews ==
    /\ data # Null
    /\ memo = Null
    /\ scene = Null
    /\ memo' = Layout(data)
    /\ svg' = RenderLewis(memo', hoveredAtom, showLonePairs, showCharges)
    /\ scene' = RenderMolecule3D(data, showLabels3D)
    /\ UNCHANGED <<formula, loading, data, error, showLonePairs, showCharges,
                   showLabels3D, pending, issued, lastDone, hoveredAtom>>

NextViews == MountViews

SpecViews == InitViews /\ [][NextViews]_vars

----------------------------------------------------------------------------
(* Properties of bonds that do not resolve or have no drawable order *)

MountedViews == memo # Null /\ scene # Null

\* bond b names two atoms of the list
Resolves(atoms, b) ==
    b.source \in 0 .. (Len(atoms) - 1) /\ b.target \in 0 .. (Len(atoms) - 1)

\* the entries of xs at the positions of the bonds of bs that resolve
RECURSIVE KeepResolved(_, _, _)
KeepResolved(atoms, bs, xs) ==
    IF bs = <<>> THEN <<>>
    ELSE LET rest == KeepResolved(atoms, Tail(bs), Tail(xs))
         IN  IF Resolves(atoms, Head(bs)) THEN <<Head(xs)>> \o rest ELSE rest

\* C11: a bond whose source or target names no atom adds nothing to the mean
\* bond length (the layout is that of the molecule without it), gets no 2D line
\* and no 3D cylinder, while every atom and every other bond is drawn as in the
\* molecule without it; when no bond resolves the scale is 60.
C11_UnresolvedBondsSkipped ==
    (MountedViews /\ Len(data.atoms) >= 1) =>
        LET kept == ResolvedBonds(data.atoms, data.bonds)
            rest == [atoms |-> data.atoms, bonds |-> kept]
            svg0 == RenderLewis(Layout(rest), hoveredAtom, showLonePairs, showCharges)
            scene0 == RenderMolecule3D(rest, showLabels3D)
        IN  /\ memo.normalizedAtoms = Layout(rest).normalizedAtoms
            /\ memo.viewBox = Layout(rest).viewBox
            /\ \A i \in 1 .. Len(data.bonds) :
                ~Resolves(data.atoms, data.bonds[i])
                    => svg.bonds[i] = <<>> /\ scene.bonds[i] = Null
            /\ Len(svg.atoms) = Len(data.atoms)
            /\ svg.atoms = svg0.atoms
            /\ KeepResolved(data.atoms, data.bonds, svg.bonds) = svg0.bonds
            /\ Len(scene.atoms) = Len(data.atoms)
            /\ scene.atoms = scene0.atoms
            /\ KeepResolved(data.atoms, data.bonds, scene.bonds) = scene0.bonds
            /\ \A i \in 1 .. Len(scene0.bonds) : scene0.bonds[i] # Null
            /\ kept = <<>> =>
                \A a \in 1 .. Len(data.atoms) :
                    /\ memo.normalizedAtoms[a].x = RMul(data.atoms[a].x2d, Num(60))
                    /\ memo.normalizedAtoms[a].y = RMul(data.atoms[a].y2d, Num(60))

\* two atoms apart, one bond with a negative index, then one between the atoms,
\* drawn in both views
C11_Witness ==
    /\ MountedViews
    /\ Len(data.atoms) = 2
    /\ Len(data.bonds) = 2
    /\ data.bonds[1].source = -1
    /\ Resolves(data.atoms, data.bonds[2])
    /\ Len(svg.bonds[2]) = 1
    /\ scene.bonds[2] # Null
    /\ scene.bonds[2].meshes[1].height # Num(0)

\* the number of lines drawn for the i-th bond (the layout of a molecule
\* without atoms holds no bonds)
Lines2D(i) == IF i \in 1 .. Len(svg.bonds) THEN Len(svg.bonds[i]) ELSE 0

\* the number of cylinders drawn for the i-th bond
Cylinders3D(i) == IF scene.bonds[i] = Null THEN 0 ELSE Len(scene.bonds[i].meshes)

\* C12 as stated: a bond whose order is outside 1..3 gets no 2D line and no 3D
\* cylinder, and in both views the number of strands of any bond is 0 or its
\* order.
C12_OrdersOutsideRangeSkipped ==
    MountedViews =>
        \A i \in 1 .. Len(data.bonds) :
            LET o == data.bonds[i].order
            IN  /\ Lines2D(i) \in {0, o}
                /\ Cylinders3D(i) \in {0, o}
                /\ o \notin 1 .. 3 => Lines2D(i) = 0 /\ Cylinders3D(i) = 0

----------------------------------------------------------------------------
(* Further properties of the 2D view *)

FiniteLine(l) == IsFinite(l.x1) /\ IsFinite(l.y1) /\ IsFinite(l.x2) /\ IsFinite(l.y2)

\* C13: in the 2D view a bond between atoms at one position gets no line,
\* whatever its order; a bond that gets lines joins atoms drawn apart, and every
\* coordinate of every line is a finite number.
C13_CoincidentEndpointsGiveNoLine ==
    Mounted =>
        \A i \in 1 .. Len(svg.bonds) :
            LET b == data.bonds[i]
                s == At(data.atoms, b.source)
                e == At(data.atoms, b.target)
            IN  /\ (s # Undefined /\ e # Undefined /\ <<s.x2d, s.y2d>> = <<e.x2d, e.y2d>>)
                    => svg.bonds[i] = <<>>
                /\ svg.bonds[i] # <<>> =>
                    /\ s # Undefined /\ e # Undefined
                    /\ <<memo.normalizedAtoms[b.source + 1].x, memo.normalizedAtoms[b.source + 1].y>>
                         # <<memo.normalizedAtoms[b.target + 1].x, memo.normalizedAtoms[b.target + 1].y>>
                    /\ \A k \in 1 .. Len(svg.bonds[i]) : FiniteLine(svg.bonds[i][k])

\* a double bond between two atoms at one position away from the origin, the
\* only bond of its molecule (mean raw length 0, scale 60), rendered without lines
C13_Witness ==
    /\ Mounted
    /\ Len(data.atoms) = 2
    /\ data.bonds = <<[source |-> 0, target |-> 1, order |-> 2]>>
    /\ <<data.atoms[1].x2d, data.atoms[1].y2d>> = <<data.atoms[2].x2d, data.atoms[2].y2d>>
    /\ data.atoms[1].x2d # Num(0)
    /\ memo.normalizedAtoms[1].x = RMul(Num(60), data.atoms[1].x2d)
    /\ svg.bonds = <<(<<>>)>>

\* C14 as stated: for every atom with lone pairs shown, the lone-pair ring is
\* centred straight above the atom at radius + 4, and the first pair-marker
\* lies straight up from the ring centre (no x displacement, negative y).
C14_FirstMarkerUpward ==
    (Mounted /\ showLonePairs) =>
        \A a \in 1 .. Len(svg.atoms) :
            data.atoms[a].lonePairs >= 1 =>
                LET g == svg.atoms[a].lonePairs
                    c == MarkerCentre(g.markers[1])
                IN  /\ g.translate = <<Num(0), RNeg(RAdd(svg.atoms[a].r, Num(4)))>>
                    /\ c[1] = Num(0)
                    /\ RLt(c[2], Num(0))

\* C17: for every molecule with atoms the view frame is as wide and as high as
\* the spread of the normalized positions plus 80, hence at least 80 each way
\* and finite: also for one atom, without bonds, and with all atoms at one place.
C17_FrameIsExtentPlusTwicePadding ==
    (Mounted /\ Len(data.atoms) >= 1) =>
        LET vb == memo.viewBox
            n == memo.normalizedAtoms
            w == RSub(vb[3], Num(80))
            h == RSub(vb[4], Num(80))
        IN  /\ svg.viewBox = vb
            /\ IsFinite(vb[1]) /\ IsFinite(vb[2]) /\ IsFinite(vb[3]) /\ IsFinite(vb[4])
            /\ RLe(Num(80), vb[3])
            /\ RLe(Num(80), vb[4])
            /\ \E i, j \in 1 .. Len(n) : w = RSub(n[i].x, n[j].x)
            /\ \A i, j \in 1 .. Len(n) : RLe(RSub(n[i].x, n[j].x), w)
            /\ \E i, j \in 1 .. Len(n) : h = RSub(n[i].y, n[j].y)
            /\ \A i, j \in 1 .. Len(n) : RLe(RSub(n[i].y, n[j].y), h)

\* two bonded atoms at one position away from the origin: a frame of 80 by 80
C17_Witness ==
    /\ Mounted
    /\ Len(data.atoms) = 2
    /\ Len(data.bonds) >= 1
    /\ memo.normalizedAtoms[1].x # Num(0)
    /\ memo.normalizedAtoms[1].x = memo.normalizedAtoms[2].x
    /\ memo.viewBox[3] = Num(80)
    /\ memo.viewBox[4] = Num(80)

----------------------------------------------------------------------------
(* Properties of the App *)

\* C7: at most one data-provider request is outstanding at any time; a
\* submission made while one is outstanding starts no second request.
C7_OneRequestOutstanding == Cardinality(pending) <= 1

\* a request is outstanding while the form holds a formula and a further
\* submission can be tried
C7_Witness ==
    /\ Cardinality(pending) = 1
    /\ Trim(formula) # ""
    /\ issued < MaxRequests

\* C8: while the last completed request is a failed one, data is null and
\* neither view is rendered; once the failed request has settled the error is
\* the generic failure message.
C8_FailedFetchRendersNothing ==
    lastDone = Failed
        => /\ data = Null
           /\ memo = Null /\ svg = Null /\ scene = Null
           /\ ~loading => error = FailureMessage

\* the second request failed and has settled
C8_Witness == lastDone = Failed /\ ~loading /\ issued = 2 /\ error = FailureMessage

C15_LoadingIffRequestOutstanding == loading <=> (pending # {})

\* a second request outstanding after the first one has settled
C15_Witness ==
    /\ loading
    /\ Cardinality(pending) = 1
    /\ issued = 2
    /\ lastDone # Null

\* C16: a molecule on display is the response to the most recently issued
\* request: while data is non-null no request is in flight and data is the last
\* response delivered; issuing a request clears data and error; and data only
\* ever becomes a response when the request that settles is the latest issued.
C16_DataIsLatestResponse ==
    /\ [](data # Null => (pending = {} /\ data = lastDone /\ error = Null))
    /\ [][issued' # issued => (issued' = issued + 1 /\ data' = Null /\ error' = Null)]_vars
    /\ [][(data' # Null /\ data' # data)
            => \E req \in pending :
                  /\ req.id = issued
                  /\ issued' = issued
                  /\ pending' = pending \ {req}
                  /\ data' = lastDone']_vars

\* the response to the second request on display, nothing in flight
C16_Witness ==
    /\ data # Null
    /\ data = lastDone
    /\ issued = 2
    /\ pending = {}
    /\ error = Null
    /\ ~loading

====
